---- MODULE Spec2Model ----
(***************************************************************************)
(* State-machine model of the stock dashboard front end                    *)
(* (src/frontend/script.js).  The page is single threaded: every handler   *)
(* runs to its next await, and each action below is one such run.          *)
(* Strings whose characters matter (company names, symbols, sectors, the   *)
(* filter text) are sequences of one-character strings.                    *)
(***************************************************************************)
EXTENDS Integers, Sequences, FiniteSets, Bags, TLC

(***************************************************************************)
(* Bounds of the model.                                                    *)
(***************************************************************************)
\* loadStockData calls that may be suspended together
MaxLoads == 2
\* user and timer events one run handles, per specification
MaxEvents == 2
MaxStockEvents == 2
MaxCompareEvents == 4
MaxFilterEvents == 2
MaxSelectEvents == 3
MaxFaultEvents == 2
\* points of a /data body, and prices of a series to normalize
MaxPoints == 2
MaxPrices == 2

(***************************************************************************)
(* JavaScript string functions used by the page.                           *)
(***************************************************************************)
UpperChars == <<"A", "B", "C", "F", "I", "K", "N", "O", "S", "T", "Y">>
LowerChars == <<"a", "b", "c", "f", "i", "k", "n", "o", "s", "t", "y">>

\* String.prototype.toLowerCase, one character
LowerChar(c) ==
    IF \E i \in 1..Len(UpperChars) : UpperChars[i] = c
    THEN LowerChars[CHOOSE i \in 1..Len(UpperChars) : UpperChars[i] = c]
    ELSE c

\* String.prototype.toLowerCase
toLowerCase(s) == [i \in 1..Len(s) |-> LowerChar(s[i])]

\* s.startsWith(t, i - 1): t occurs in s at index i (1-based)
OccursAt(s, t, i) ==
    /\ i + Len(t) - 1 <= Len(s)
    /\ \A k \in 1..Len(t) : s[i + k - 1] = t[k]

\* String.prototype.includes
includes(s, t) == \E i \in 1..(Len(s) + 1) : OccursAt(s, t, i)

\* String.prototype.replace with a string pattern: the first occurrence only
replace(s, pat, rep) ==
    IF includes(s, pat)
    THEN LET i == CHOOSE j \in 1..(Len(s) + 1) :
                     /\ OccursAt(s, pat, j)
                     /\ \A k \in 1..(j - 1) : ~OccursAt(s, pat, k)
         IN  SubSeq(s, 1, i - 1) \o rep \o SubSeq(s, i + Len(pat), Len(s))
    ELSE s

DotNS == <<".", "N", "S">>

(***************************************************************************)
(* Values the remote service and the user can supply.                      *)
(***************************************************************************)
TCS  == [symbol |-> <<"T", "C", "S", ".", "N", "S">>,
         name   |-> <<"T", "C", "S">>,
         sector |-> <<"I", "T">>]
INFY == [symbol |-> <<"I", "N", "F", "Y", ".", "N", "S">>,
         name   |-> <<"I", "n", "f", "o", "s", "y", "s">>,
         sector |-> <<"I", "T">>]
SBIN == [symbol |-> <<"S", "B", "I", "N">>,
         name   |-> <<"S", "B", "I">>,
         sector |-> <<"B", "a", "n", "k">>]

\* bodies GET /companies may answer with
CompanyLists == {<<TCS, INFY>>, <<INFY, SBIN>>, <<>>}

Symbols == {TCS.symbol, INFY.symbol, SBIN.symbol}

\* the values of the timePeriod select
Periods == {"30", "90"}

\* texts the user may type in the search box
FilterTexts == {<<>>, <<"i", "n", "f", "y">>, <<"n", "s">>, <<"I", "T">>}

\* JavaScript null, and the empty string (the "None" option's value)
Null == <<"null">>
Empty == <<>>
Truthy(v) == v # Null /\ v # Empty

(***************************************************************************)
(* State.                                                                  *)
(***************************************************************************)
VARIABLES
    currentStock,       \* let currentStock: Null or a symbol
    priceChart,         \* let priceChart: <<>> (null) or <<chart object>>
    returnsChart,       \* let returnsChart
    comparisonChart,    \* let comparisonChart
    canvas,             \* per canvas, the number of live Chart objects on it
    overlapped,         \* canvases on which a Chart was built over a live one
    released,           \* canvases on which a live Chart has been destroyed
    timePeriod,         \* timePeriod.value
    searchCompany,      \* searchCompany.value
    compareStock,       \* compareStock.value
    compareOptions,     \* option values of the compareStock select
    companiesList,      \* #companiesList: the rendered items or the error
    selectedStockInfo,  \* #selectedStockInfo
    metrics,            \* #weekHigh, #weekLow, #avgClose, #volatilityScore
    comparisonSection,  \* #comparisonSection is displayed
    comparisonStats,    \* #correlationValue and #perfDifference
    apiStatus,          \* #apiStatus text
    topGainers,         \* #topGainers
    topLosers,          \* #topLosers
    notice,             \* the alert() raised by the last step
    loads,              \* loadStockData calls suspended at line 156
    companyLoads,       \* loadCompanies calls suspended at line 63
    gainerLoads,        \* loadTopGainers calls suspended at line 311
    loserLoads,         \* loadTopLosers calls suspended at line 336
    statusLoads,        \* checkAPIStatus calls suspended at line 46
    compares,           \* compareStocks calls suspended at line 370
    chartLoads,         \* displayComparison chains suspended at line 399
    fetchedSymbols,     \* history: symbols of every company list received
    events,             \* history: user and timer events handled so far
    atRefresh,          \* history: the selection when refreshAllData last ran,
                        \* <<>> once the user has acted again
    periodChanges,      \* history: period changes since a company was selected
    lastCompared,       \* history: <<symbol1, symbol2>> of the latest /compare
                        \* request, <<>> before the first
    failed,             \* operations whose catch block or .catch has run
    uncaught,           \* operations a failure of which reached the top level
    payload,            \* series derivation: the decoded bodies handed to it
    datasets            \* series derivation: what it hands to the chart

view == <<priceChart, returnsChart, comparisonChart, canvas, overlapped, released,
          companiesList, selectedStockInfo, metrics, comparisonSection,
          comparisonStats, apiStatus, topGainers, topLosers>>
selection == <<currentStock, timePeriod, searchCompany, compareStock, compareOptions>>
pending == <<loads, companyLoads, gainerLoads, loserLoads, statusLoads,
             compares, chartLoads>>
history == <<fetchedSymbols, events, atRefresh, periodChanges, lastCompared>>
faults == <<failed, uncaught>>
derived == <<payload, datasets>>
vars == <<view, selection, pending, notice, history, faults, derived>>

NoChart == <<>>
NoNotice == "none"
SelectNotice == "Please select a stock to compare with"
FailedNotice == "Failed to compare stocks. Please try again."

Slots == {"priceChart", "returnsChart", "comparisonChart"}

\* the comparison view a compare action can change
comparisonView == [section |-> comparisonSection,
                   stats   |-> comparisonStats,
                   chart   |-> comparisonChart,
                   live    |-> canvas.comparisonChart]

\* one more user or timer event is handled
Handled ==
    /\ events' = events + 1
    /\ atRefresh' = <<>>

(***************************************************************************)
(* Series derivation: the arrays updateCharts and displayComparison hand   *)
(* to their charts.  A field that may be absent is <<>> or <<value>>.  A   *)
(* JavaScript number is an integer, or, where a division made it, a        *)
(* fraction [n, d] in lowest terms with d > 0; d = 0 stands for the        *)
(* non-finite results: Infinity (n = 1), -Infinity (n = -1), NaN (n = 0).  *)
(***************************************************************************)
Sign(a) == IF a > 0 THEN 1 ELSE IF a < 0 THEN -1 ELSE 0
Abs(a) == IF a < 0 THEN -a ELSE a

RECURSIVE GCD(_, _)
GCD(a, b) == IF b = 0 THEN a ELSE GCD(b, a % b)

\* a / b
Quotient(a, b) ==
    IF b = 0
    THEN [n |-> Sign(a), d |-> 0]
    ELSE LET g == GCD(Abs(a), Abs(b))
         IN  [n |-> Sign(b) * (a \div g), d |-> Abs(b) \div g]

\* q * k for an integer k > 0
Times(q, k) ==
    IF q.d = 0
    THEN q
    ELSE LET g == GCD(Abs(q.n * k), q.d)
         IN  [n |-> (q.n * k) \div g, d |-> q.d \div g]

\* new Date(date).toLocaleDateString()
toLocaleDateString(date) == <<date.m, date.d, date.y>>

\* d.daily_return ? d.daily_return * 100 : 0
ReturnPercent(daily_return) ==
    IF daily_return # <<>> /\ daily_return[1] # 0 THEN daily_return[1] * 100 ELSE 0

\* faulty variant: a gap of the moving average is drawn as zero
ChartSeriesZeroFilled(stockData) ==
    [kind           |-> "series",
     dates          |-> [i \in 1..Len(stockData) |-> toLocaleDateString(stockData[i].date)],
     prices         |-> [i \in 1..Len(stockData) |-> stockData[i].close],
     movingAverages |-> [i \in 1..Len(stockData) |->
                            IF stockData[i].moving_avg_7 = <<>>
                            THEN <<0>> ELSE stockData[i].moving_avg_7],
     dailyReturns   |-> [i \in 1..Len(stockData) |-> ReturnPercent(stockData[i].daily_return)]]

\* the four arrays updateCharts derives from a /data body
ChartSeries(stockData) ==
    [kind           |-> "series",
     dates          |-> [i \in 1..Len(stockData) |-> toLocaleDateString(stockData[i].date)],
     prices         |-> [i \in 1..Len(stockData) |-> stockData[i].close],
     movingAverages |-> [i \in 1..Len(stockData) |-> stockData[i].moving_avg_7],
     dailyReturns   |-> [i \in 1..Len(stockData) |-> ReturnPercent(stockData[i].daily_return)]]

\* prices.map(p => ((p - base) / base) * 100) with base = prices[0]
Normalized(prices) ==
    [i \in 1..Len(prices) |-> Times(Quotient(prices[i] - prices[1], prices[1]), 100)]

\* prices.map(p => ((p - base) / base) * 100) with a base given
NormalizedTo(prices, base) ==
    [i \in 1..Len(prices) |-> Times(Quotient(prices[i] - base, base), 100)]

\* data.map(d => d.close)
Closes(data) == [i \in 1..Len(data) |-> data[i].close]

\* faulty variant: both series are rebased against the first series' base
ComparisonSeriesOneBase(data1, data2) ==
    [kind        |-> "pair",
     dates       |-> [i \in 1..Len(data1) |-> toLocaleDateString(data1[i].date)],
     normalized1 |-> Normalized(Closes(data1)),
     normalized2 |-> IF Len(data1) > 0
                     THEN NormalizedTo(Closes(data2), data1[1].close)
                     ELSE Normalized(Closes(data2))]

\* the arrays the .then of displayComparison derives from two /data bodies
ComparisonSeries(data1, data2) ==
    [kind        |-> "pair",
     dates       |-> [i \in 1..Len(data1) |-> toLocaleDateString(data1[i].date)],
     normalized1 |-> Normalized(Closes(data1)),
     normalized2 |-> Normalized(Closes(data2))]

\* Number.prototype.toFixed(2) of a number given in thousandths: the sign
\* and the hundredths of the rounded magnitude
toFixed2(x) == [negative |-> x < 0, hundredths |-> (Abs(x) + 5) \div 10]

\* faulty variant: the magnitude of the difference
perfDiffUnsigned(comparison) ==
    Abs(comparison.performance[comparison.stocks[1]]
          - comparison.performance[comparison.stocks[2]])

\* const perfDiff of displayComparison
perfDiff(comparison) ==
    comparison.performance[comparison.stocks[1]]
      - comparison.performance[comparison.stocks[2]]

\* perfDiff and the text written to #perfDifference
ComparisonStats(comparison) ==
    [kind     |-> "stats",
     perfDiff |-> perfDiff(comparison),
     text     |-> toFixed2(perfDiff(comparison))]

(***************************************************************************)
(* Failures and the try blocks that catch them.                            *)
(***************************************************************************)
Operations == {"checkAPIStatus", "loadCompanies", "loadStockData",
               "loadTopGainers", "loadTopLosers", "compareStocks",
               "displayComparison"}

\* where an operation can fail: the request is rejected (fetch), the body is
\* not JSON (json), the decoded value has not the expected shape (use)
FailurePoints == {"fetch", "json", "use"}

\* faulty variant: the promise chain of displayComparison has no .catch
ProtectedButChart ==
    [op \in Operations |->
        CASE op = "checkAPIStatus"    -> {"fetch"}
          [] op = "displayComparison" -> {}
          [] OTHER                    -> {"fetch", "json", "use"}]

\* the failure points each operation's try block or .catch covers
Protected ==
    [op \in Operations |->
        IF op = "checkAPIStatus" THEN {"fetch"} ELSE {"fetch", "json", "use"}]

\* a failure at point of op: caught by the operation, or thrown to the top
Caught(op, point) ==
    /\ failed' = failed \cup {op}
    /\ uncaught' = IF point \in Protected[op] THEN uncaught ELSE uncaught \cup {op}

(***************************************************************************)
(* Chart objects.                                                          *)
(***************************************************************************)
\* Chart.prototype.destroy
destroy(chart) == [chart EXCEPT !.live = FALSE]

\* faulty variant: the guarded destroy is left out
DestroyIfSetSkipped(ref) == ref

\* if (priceChart) { priceChart.destroy(); }
DestroyIfSet(ref) == IF ref # NoChart THEN <<destroy(ref[1])>> ELSE ref

\* live objects the guarded destroy takes off the canvas
Released(ref) ==
    IF ref # NoChart /\ ref[1].live /\ ~DestroyIfSet(ref)[1].live THEN 1 ELSE 0

\* new Chart(ctx, {data}) for the series of one /data response
SeriesChart(stockData) ==
    [symbol |-> stockData.symbol, days |-> stockData.days, live |-> TRUE]

\* new Chart(ctx, {data}) for the two normalized series of a comparison
PairChart(comparison) ==
    [stocks |-> comparison.stocks, days |-> comparison.days, live |-> TRUE]

(***************************************************************************)
(* loadStockData and what it calls.                                        *)
(***************************************************************************)
\* faulty variant: the summary request is not made
LoadOfSeriesOnly(symbol, days) ==
    [symbol |-> symbol, days |-> days, data |-> "pending", summary |-> "none"]

\* the two concurrent fetches of one loadStockData call
LoadOf(symbol, days) ==
    [symbol |-> symbol, days |-> days, data |-> "pending", summary |-> "pending"]

\* loadStockData up to the await of Promise.all
loadStockData(symbol, days) ==
    /\ BagCardinality(loads) < MaxLoads
    /\ currentStock' = symbol
    /\ loads' = loads (+) SetToBag({LoadOf(symbol, days)})

\* updateStockInfo(summary)
updateStockInfo(summary) ==
    selectedStockInfo' = [kind |-> "info", symbol |-> summary.symbol]

\* updateMetrics(summary)
updateMetrics(summary) == metrics' = summary.symbol

\* updateCharts(stockData)
updateCharts(stockData) ==
    LET livePrice   == canvas.priceChart - Released(priceChart)
        liveReturns == canvas.returnsChart - Released(returnsChart)
    IN  /\ priceChart' = <<SeriesChart(stockData)>>
        /\ returnsChart' = <<SeriesChart(stockData)>>
        /\ canvas' = [canvas EXCEPT !.priceChart = livePrice + 1,
                                    !.returnsChart = liveReturns + 1]
        /\ overlapped' = overlapped
                           \cup (IF livePrice > 0 THEN {"priceChart"} ELSE {})
                           \cup (IF liveReturns > 0 THEN {"returnsChart"} ELSE {})
        /\ released' = released
                           \cup (IF Released(priceChart) > 0 THEN {"priceChart"} ELSE {})
                           \cup (IF Released(returnsChart) > 0 THEN {"returnsChart"} ELSE {})

\* faulty variant: the catch block only logs
loadStockDataCatchSilent ==
    UNCHANGED <<selectedStockInfo, priceChart, returnsChart, canvas, overlapped,
                released, metrics>>

\* the catch block of loadStockData
loadStockDataCatch ==
    /\ selectedStockInfo' = [kind |-> "error", symbol |-> Null]
    /\ UNCHANGED <<priceChart, returnsChart, canvas, overlapped, released, metrics>>

\* bodies a fulfilled response may carry: the expected JSON, a body that is
\* not JSON, or a JSON object of another shape (an error document)
Bodies == {"ok", "nojson", "errobj"}

\* a fetch of a suspended loadStockData call is fulfilled with a response
fetchFulfils(p, which) ==
    /\ BagIn(p, loads)
    /\ p[which] = "pending"
    /\ loads' = (loads (-) SetToBag({p})) (+) SetToBag({[p EXCEPT ![which] = "fulfilled"]})
    /\ notice' = NoNotice
    /\ UNCHANGED <<view, selection, companyLoads, gainerLoads, loserLoads,
                   statusLoads, compares, chartLoads, history, faults, derived>>

\* a fetch of a suspended loadStockData call is rejected (the request could
\* not be made): Promise.all rejects at once and the catch block runs
fetchRejects(p, which) ==
    /\ BagIn(p, loads)
    /\ p[which] = "pending"
    /\ loads' = loads (-) SetToBag({p})
    /\ loadStockDataCatch
    /\ Caught("loadStockData", "fetch")
    /\ notice' = NoNotice
    /\ UNCHANGED <<comparisonChart, companiesList, comparisonSection,
                   comparisonStats, apiStatus, topGainers, topLosers,
                   selection, companyLoads, gainerLoads, loserLoads,
                   statusLoads, compares, chartLoads, history, derived>>

\* both responses are in: loadStockData runs from line 161 to its end
loadStockDataResume(p, dataBody, summaryBody) ==
    /\ BagIn(p, loads)
    /\ p.data = "fulfilled"
    /\ p.summary = "fulfilled"
    /\ loads' = loads (-) SetToBag({p})
    /\ IF dataBody = "ok" /\ summaryBody = "ok"
       THEN /\ updateStockInfo([symbol |-> p.symbol])
            /\ updateCharts([symbol |-> p.symbol, days |-> p.days])
            /\ updateMetrics([symbol |-> p.symbol])
            /\ UNCHANGED faults
       ELSE /\ loadStockDataCatch
            /\ Caught("loadStockData",
                      IF "nojson" \in {dataBody, summaryBody} THEN "json" ELSE "use")
    /\ notice' = NoNotice
    /\ UNCHANGED <<comparisonChart, companiesList, comparisonSection,
                   comparisonStats, apiStatus, topGainers, topLosers,
                   selection, companyLoads, gainerLoads, loserLoads,
                   statusLoads, compares, chartLoads, history, derived>>

(***************************************************************************)
(* The company list.                                                       *)
(***************************************************************************)
\* faulty variant: the element keeps the displayed symbol as its symbol
CompanyItemStripped(company) ==
    [symbol     |-> replace(company.symbol, DotNS, <<>>),
     name       |-> company.name,
     symbolText |-> replace(company.symbol, DotNS, <<>>),
     sector     |-> company.sector,
     display    |-> TRUE]

\* the element displayCompanies builds for one company
CompanyItem(company) ==
    [symbol     |-> company.symbol,
     name       |-> company.name,
     symbolText |-> replace(company.symbol, DotNS, <<>>),
     sector     |-> company.sector,
     display    |-> TRUE]

\* the test filterCompanies makes on one element
Matches(item, searchTerm) ==
    \/ includes(toLowerCase(item.name), searchTerm)
    \/ includes(toLowerCase(item.symbolText), searchTerm)
    \/ includes(toLowerCase(item.sector), searchTerm)

\* faulty variant: the search term is not lower-cased
filterCompaniesCaseSensitive(items, value) ==
    [i \in 1..Len(items) |->
        [items[i] EXCEPT !.display = Matches(items[i], value)]]

\* filterCompanies, as a function of the rendered items and searchCompany.value
filterCompanies(items, value) ==
    [i \in 1..Len(items) |->
        [items[i] EXCEPT !.display = Matches(items[i], toLowerCase(value))]]

\* displayCompanies(companies): the items, and the click on the first one
displayCompanies(companies) ==
    /\ companiesList' = [error |-> FALSE,
                         items |-> [i \in 1..Len(companies) |-> CompanyItem(companies[i])]]
    /\ IF Len(companies) > 0
       THEN loadStockData(companies[1].symbol, timePeriod)
       ELSE UNCHANGED <<currentStock, loads>>

\* populateCompareDropdown(companies)
populateCompareDropdown(companies) ==
    /\ compareOptions' = [i \in 1..Len(companies) |-> companies[i].symbol]
    /\ compareStock' = Empty

\* loadCompanies up to its await
loadCompanies == companyLoads' = companyLoads + 1

\* GET /companies answered with an array of companies
loadCompaniesResume(companies) ==
    /\ companyLoads > 0
    /\ companyLoads' = companyLoads - 1
    /\ displayCompanies(companies)
    /\ populateCompareDropdown(companies)
    /\ fetchedSymbols' = fetchedSymbols \cup {companies[i].symbol : i \in 1..Len(companies)}
    /\ periodChanges' = IF Len(companies) > 0 THEN 0 ELSE periodChanges
    /\ notice' = NoNotice
    /\ UNCHANGED <<priceChart, returnsChart, comparisonChart, canvas, overlapped, released,
                   selectedStockInfo, metrics, comparisonSection, comparisonStats,
                   apiStatus, topGainers, topLosers, timePeriod, searchCompany,
                   gainerLoads, loserLoads, statusLoads, compares, chartLoads,
                   events, atRefresh, lastCompared, faults, derived>>

\* GET /companies rejected, or answered with something that is no array
loadCompaniesCatch ==
    /\ companyLoads > 0
    /\ companyLoads' = companyLoads - 1
    /\ companiesList' = [error |-> TRUE, items |-> <<>>]
    /\ \E point \in FailurePoints : Caught("loadCompanies", point)
    /\ notice' = NoNotice
    /\ UNCHANGED <<priceChart, returnsChart, comparisonChart, canvas, overlapped, released,
                   selectedStockInfo, metrics, comparisonSection, comparisonStats,
                   apiStatus, topGainers, topLosers, selection, loads,
                   gainerLoads, loserLoads, statusLoads, compares, chartLoads,
                   history, derived>>

(***************************************************************************)
(* Top gainers, top losers and the API status.                             *)
(***************************************************************************)
\* what a settled GET of a list can be: an array, a JSON value that is no
\* array (the region is cleared before forEach throws), or no JSON at all
\* and a rejected request (the region is not touched)
ListOutcomes == {"array", "noarray", "failed"}

RegionAfter(region, outcome) ==
    CASE outcome = "array"   -> "list"
      [] outcome = "noarray" -> "cleared"
      [] OTHER               -> region

\* what the catch block of a list operation sees for an outcome
ListFaults(op, outcome) ==
    CASE outcome = "array"   -> UNCHANGED faults
      [] outcome = "noarray" -> Caught(op, "use")
      [] OTHER               -> \E point \in {"fetch", "json"} : Caught(op, point)

loadTopGainers == gainerLoads' = gainerLoads + 1

loadTopGainersResume(outcome) ==
    /\ gainerLoads > 0
    /\ gainerLoads' = gainerLoads - 1
    /\ topGainers' = RegionAfter(topGainers, outcome)
    /\ ListFaults("loadTopGainers", outcome)
    /\ notice' = NoNotice
    /\ UNCHANGED <<priceChart, returnsChart, comparisonChart, canvas, overlapped, released,
                   companiesList, selectedStockInfo, metrics, comparisonSection,
                   comparisonStats, apiStatus, topLosers, selection, loads,
                   companyLoads, loserLoads, statusLoads, compares, chartLoads,
                   history, derived>>

loadTopLosers == loserLoads' = loserLoads + 1

loadTopLosersResume(outcome) ==
    /\ loserLoads > 0
    /\ loserLoads' = loserLoads - 1
    /\ topLosers' = RegionAfter(topLosers, outcome)
    /\ ListFaults("loadTopLosers", outcome)
    /\ notice' = NoNotice
    /\ UNCHANGED <<priceChart, returnsChart, comparisonChart, canvas, overlapped, released,
                   companiesList, selectedStockInfo, metrics, comparisonSection,
                   comparisonStats, apiStatus, topGainers, selection, loads,
                   companyLoads, gainerLoads, statusLoads, compares, chartLoads,
                   history, derived>>

\* checkAPIStatus after its await: response.ok, !response.ok, or the catch
StatusOutcomes == {"ok", "notok", "rejected"}

\* faulty variant: a failed check abandons the gainers and losers loads
checkAPIStatusResumeAbandoning(outcome) ==
    /\ statusLoads > 0
    /\ statusLoads' = statusLoads - 1
    /\ apiStatus' = IF outcome = "ok" THEN "Online" ELSE "Offline"
    /\ IF outcome = "rejected"
       THEN Caught("checkAPIStatus", "fetch")
       ELSE UNCHANGED faults
    /\ IF outcome = "ok"
       THEN UNCHANGED <<gainerLoads, loserLoads>>
       ELSE gainerLoads' = 0 /\ loserLoads' = 0
    /\ notice' = NoNotice
    /\ UNCHANGED <<priceChart, returnsChart, comparisonChart, canvas, overlapped, released,
                   companiesList, selectedStockInfo, metrics, comparisonSection,
                   comparisonStats, topGainers, topLosers, selection, loads,
                   companyLoads, compares, chartLoads, history, derived>>

checkAPIStatusResume(outcome) ==
    /\ statusLoads > 0
    /\ statusLoads' = statusLoads - 1
    /\ apiStatus' = IF outcome = "ok" THEN "Online" ELSE "Offline"
    /\ IF outcome = "rejected"
       THEN Caught("checkAPIStatus", "fetch")
       ELSE UNCHANGED faults
    /\ notice' = NoNotice
    /\ UNCHANGED <<priceChart, returnsChart, comparisonChart, canvas, overlapped, released,
                   companiesList, selectedStockInfo, metrics, comparisonSection,
                   comparisonStats, topGainers, topLosers, selection, loads,
                   companyLoads, gainerLoads, loserLoads, compares, chartLoads,
                   history, derived>>

(***************************************************************************)
(* Comparison.                                                             *)
(***************************************************************************)
\* compareStocks, from the click to its await
compareStocks ==
    /\ Handled
    /\ IF ~Truthy(currentStock) \/ ~Truthy(compareStock)
       THEN /\ notice' = SelectNotice
            /\ UNCHANGED <<compares, lastCompared>>
       ELSE /\ compares' = compares (+) SetToBag({[symbol1 |-> currentStock,
                                                    symbol2 |-> compareStock,
                                                    days    |-> timePeriod,
                                                    before  |-> comparisonView]})
            /\ lastCompared' = <<currentStock, compareStock>>
            /\ notice' = NoNotice
    /\ UNCHANGED <<view, selection, loads, companyLoads, gainerLoads, loserLoads,
                   statusLoads, chartLoads, fetchedSymbols, periodChanges,
                   faults, derived>>

\* GET /compare rejected, not JSON, or JSON without the expected fields
\* (displayComparison throws at its first statement): the catch block
compareStocksCatch(c) ==
    /\ BagIn(c, compares)
    /\ compares' = compares (-) SetToBag({c})
    /\ notice' = FailedNotice
    /\ \E point \in FailurePoints : Caught("compareStocks", point)
    /\ UNCHANGED <<view, selection, loads, companyLoads, gainerLoads, loserLoads,
                   statusLoads, chartLoads, history, derived>>

\* the ComparisonResult the service answers a compare request with
ComparisonOf(c) == [stocks |-> <<c.symbol1, c.symbol2>>, days |-> c.days]

\* displayComparison(comparison), up to the two fetches it starts
displayComparison(comparison, before) ==
    /\ comparisonStats' = <<comparison>>
    /\ comparisonSection' = TRUE
    /\ comparisonChart' = DestroyIfSet(comparisonChart)
    /\ canvas' = [canvas EXCEPT !.comparisonChart = @ - Released(comparisonChart)]
    /\ released' = released
                       \cup (IF Released(comparisonChart) > 0 THEN {"comparisonChart"} ELSE {})
    /\ chartLoads' = chartLoads (+) SetToBag({[comparison |-> comparison,
                                               fulfilled  |-> 0,
                                               before     |-> before]})

\* GET /compare answered with a ComparisonResult
compareStocksResume(c) ==
    /\ BagIn(c, compares)
    /\ compares' = compares (-) SetToBag({c})
    /\ displayComparison(ComparisonOf(c), c.before)
    /\ notice' = NoNotice
    /\ UNCHANGED <<priceChart, returnsChart, overlapped, companiesList,
                   selectedStockInfo, metrics, apiStatus, topGainers, topLosers,
                   selection, loads, companyLoads, gainerLoads, loserLoads,
                   statusLoads, history, faults, derived>>

\* one of the two series fetches of displayComparison is fulfilled
chartFetchFulfils(cl) ==
    /\ BagIn(cl, chartLoads)
    /\ cl.fulfilled < 2
    /\ chartLoads' = (chartLoads (-) SetToBag({cl}))
                       (+) SetToBag({[cl EXCEPT !.fulfilled = @ + 1]})
    /\ notice' = NoNotice
    /\ UNCHANGED <<view, selection, loads, companyLoads, gainerLoads, loserLoads,
                   statusLoads, compares, history, faults, derived>>

\* the .catch of displayComparison: console.error only
displayComparisonCatch(cl) ==
    /\ chartLoads' = chartLoads (-) SetToBag({cl})
    /\ notice' = NoNotice
    /\ UNCHANGED <<view, selection, loads, companyLoads, gainerLoads, loserLoads,
                   statusLoads, compares, history, derived>>

\* one of the two series fetches is rejected: Promise.all rejects at once
chartFetchRejects(cl) ==
    /\ BagIn(cl, chartLoads)
    /\ cl.fulfilled < 2
    /\ displayComparisonCatch(cl)
    /\ Caught("displayComparison", "fetch")

\* both responses are in, one body is not an array of points: .then throws
displayComparisonThenThrows(cl) ==
    /\ BagIn(cl, chartLoads)
    /\ cl.fulfilled = 2
    /\ displayComparisonCatch(cl)
    /\ \E point \in {"json", "use"} : Caught("displayComparison", point)

\* both responses are in and decode: .then builds the chart.  A canvas that
\* already carries a live chart either gets a second one (Chart.js 2) or
\* the constructor throws into .catch (Chart.js 3 and later)
displayComparisonThen(cl, throwsIfBusy) ==
    /\ BagIn(cl, chartLoads)
    /\ cl.fulfilled = 2
    /\ IF canvas.comparisonChart > 0 /\ throwsIfBusy
       THEN /\ displayComparisonCatch(cl)
            /\ Caught("displayComparison", "use")
       ELSE /\ chartLoads' = chartLoads (-) SetToBag({cl})
            /\ comparisonChart' = <<PairChart(cl.comparison)>>
            /\ canvas' = [canvas EXCEPT !.comparisonChart = @ + 1]
            /\ overlapped' = overlapped
                 \cup (IF canvas.comparisonChart > 0 THEN {"comparisonChart"} ELSE {})
            /\ notice' = NoNotice
            /\ UNCHANGED <<priceChart, returnsChart, released, companiesList,
                           selectedStockInfo, metrics, comparisonSection,
                           comparisonStats, apiStatus, topGainers, topLosers,
                           selection, loads, companyLoads, gainerLoads,
                           loserLoads, statusLoads, compares, history,
                           faults, derived>>

(***************************************************************************)
(* Event listeners.                                                        *)
(***************************************************************************)
\* the click listener of the i-th company element
companyClick(i) ==
    /\ Handled
    /\ i \in 1..Len(companiesList.items)
    /\ companiesList.items[i].display
    /\ loadStockData(companiesList.items[i].symbol, timePeriod)
    /\ periodChanges' = 0
    /\ notice' = NoNotice
    /\ UNCHANGED <<view, timePeriod, searchCompany, compareStock, compareOptions,
                   companyLoads, gainerLoads, loserLoads, statusLoads, compares,
                   chartLoads, fetchedSymbols, lastCompared, faults, derived>>

\* the change listener of timePeriod, the user having picked days
timePeriodChange(days) ==
    /\ Handled
    /\ days # timePeriod
    /\ timePeriod' = days
    /\ IF Truthy(currentStock)
       THEN /\ loadStockData(currentStock, days)
            /\ periodChanges' = periodChanges + 1
       ELSE UNCHANGED <<currentStock, loads, periodChanges>>
    /\ notice' = NoNotice
    /\ UNCHANGED <<view, searchCompany, compareStock, compareOptions,
                   companyLoads, gainerLoads, loserLoads, statusLoads, compares,
                   chartLoads, fetchedSymbols, lastCompared, faults, derived>>

\* the input listener of searchCompany, the user having typed value
searchInput(value) ==
    /\ Handled
    /\ searchCompany' = value
    /\ companiesList' = [companiesList EXCEPT !.items = filterCompanies(@, value)]
    /\ notice' = NoNotice
    /\ UNCHANGED <<priceChart, returnsChart, comparisonChart, canvas, overlapped, released,
                   selectedStockInfo, metrics, comparisonSection, comparisonStats,
                   apiStatus, topGainers, topLosers, currentStock, timePeriod,
                   compareStock, compareOptions, pending, fetchedSymbols,
                   periodChanges, lastCompared, faults, derived>>

\* faulty variant: a change listener of compareStock starts the comparison
compareStockSelectFetching(value) ==
    /\ Handled
    /\ value # compareStock
    /\ value = Empty \/ \E i \in 1..Len(compareOptions) : compareOptions[i] = value
    /\ compareStock' = value
    /\ compares' = compares (+) SetToBag({[symbol1 |-> currentStock,
                                            symbol2 |-> value,
                                            days    |-> timePeriod,
                                            before  |-> comparisonView]})
    /\ notice' = NoNotice
    /\ UNCHANGED <<view, currentStock, timePeriod, searchCompany, compareOptions,
                   loads, companyLoads, gainerLoads, loserLoads, statusLoads,
                   chartLoads, fetchedSymbols, periodChanges, lastCompared,
                   faults, derived>>

\* the user picks an option of compareStock (no listener is attached)
compareStockSelect(value) ==
    /\ Handled
    /\ value # compareStock
    /\ value = Empty \/ \E i \in 1..Len(compareOptions) : compareOptions[i] = value
    /\ compareStock' = value
    /\ notice' = NoNotice
    /\ UNCHANGED <<view, currentStock, timePeriod, searchCompany, compareOptions,
                   pending, fetchedSymbols, periodChanges, lastCompared,
                   faults, derived>>

\* the click listener of closeComparison
closeComparisonClick ==
    /\ Handled
    /\ comparisonSection
    /\ comparisonSection' = FALSE
    /\ notice' = NoNotice
    /\ UNCHANGED <<priceChart, returnsChart, comparisonChart, canvas, overlapped, released,
                   companiesList, selectedStockInfo, metrics, comparisonStats,
                   apiStatus, topGainers, topLosers, selection, pending,
                   fetchedSymbols, periodChanges, lastCompared, faults, derived>>

\* refreshAllData: the click listener of refreshData and the interval timer
refreshAllData ==
    /\ events' = events + 1
    /\ atRefresh' = <<[currentStock |-> currentStock, compareStock |-> compareStock]>>
    /\ IF Truthy(currentStock)
       THEN loadStockData(currentStock, timePeriod)
       ELSE UNCHANGED <<currentStock, loads>>
    /\ loadCompanies
    /\ loadTopGainers
    /\ loadTopLosers
    /\ notice' = NoNotice
    /\ UNCHANGED <<view, timePeriod, searchCompany, compareStock, compareOptions,
                   statusLoads, compares, chartLoads, fetchedSymbols,
                   periodChanges, lastCompared, faults, derived>>

(***************************************************************************)
(* The page after the DOMContentLoaded listener has run.                   *)
(***************************************************************************)
PageInit ==
    /\ currentStock = Null
    /\ priceChart = NoChart
    /\ returnsChart = NoChart
    /\ comparisonChart = NoChart
    /\ canvas = [slot \in Slots |-> 0]
    /\ overlapped = {}
    /\ released = {}
    /\ timePeriod \in Periods
    /\ searchCompany = Empty
    /\ compareStock = Empty
    /\ compareOptions = <<>>
    /\ companiesList = [error |-> FALSE, items |-> <<>>]
    /\ selectedStockInfo = [kind |-> "initial", symbol |-> Null]
    /\ metrics = Null
    /\ comparisonSection = FALSE
    /\ comparisonStats = <<>>
    /\ apiStatus = "initial"
    /\ topGainers = "initial"
    /\ topLosers = "initial"
    /\ notice = NoNotice
    /\ loads = EmptyBag
    /\ companyLoads = 1
    /\ gainerLoads = 1
    /\ loserLoads = 1
    /\ statusLoads = 1
    /\ compares = EmptyBag
    /\ chartLoads = EmptyBag
    /\ fetchedSymbols = {}
    /\ events = 0
    /\ atRefresh = <<>>
    /\ periodChanges = 0
    /\ lastCompared = <<>>
    /\ failed = {}
    /\ uncaught = {}

Init ==
    /\ PageInit
    /\ payload = [kind |-> "none"]
    /\ datasets = [kind |-> "none"]

Fetches == {"data", "summary"}

\* the user's clicks on companies, period changes, refreshes and the timer,
\* while fewer than budget events have been handled
StockEvents(budget) ==
    \/ events < budget /\ \E i \in 1..2 : companyClick(i)
    \/ events < budget /\ \E days \in Periods : timePeriodChange(days)
    \/ events < budget /\ refreshAllData

\* the user's use of the comparison controls
CompareEvents(budget) ==
    \/ events < budget /\ \E value \in Symbols \cup {Empty} : compareStockSelect(value)
    \/ events < budget /\ compareStocks
    \/ events < budget /\ closeComparisonClick

\* the user's typing in the search box
FilterEvents(budget) ==
    events < budget /\ \E value \in FilterTexts : searchInput(value)

\* responses to the fetches of loadStockData
StockResponses ==
    \/ \E p \in BagToSet(loads), which \in Fetches : fetchFulfils(p, which)
    \/ \E p \in BagToSet(loads), which \in Fetches : fetchRejects(p, which)
    \/ \E p \in BagToSet(loads), dataBody \in Bodies, summaryBody \in Bodies :
          loadStockDataResume(p, dataBody, summaryBody)

\* responses to the fetch of loadCompanies
CompanyResponses ==
    \/ \E companies \in CompanyLists : loadCompaniesResume(companies)
    \/ loadCompaniesCatch

\* responses to the fetches of loadTopGainers, loadTopLosers, checkAPIStatus
SideResponses ==
    \/ \E outcome \in ListOutcomes : loadTopGainersResume(outcome)
    \/ \E outcome \in ListOutcomes : loadTopLosersResume(outcome)
    \/ \E outcome \in StatusOutcomes : checkAPIStatusResume(outcome)

\* responses to the fetches of compareStocks and displayComparison
CompareResponses ==
    \/ \E c \in BagToSet(compares) : compareStocksCatch(c)
    \/ \E c \in BagToSet(compares) : compareStocksResume(c)
    \/ \E cl \in BagToSet(chartLoads) : chartFetchFulfils(cl)
    \/ \E cl \in BagToSet(chartLoads) : chartFetchRejects(cl)
    \/ \E cl \in BagToSet(chartLoads) : displayComparisonThenThrows(cl)
    \/ \E cl \in BagToSet(chartLoads), throwsIfBusy \in BOOLEAN :
          displayComparisonThen(cl, throwsIfBusy)

\* the whole page
Next ==
    \/ StockEvents(MaxEvents)
    \/ CompareEvents(MaxEvents)
    \/ FilterEvents(MaxEvents)
    \/ StockResponses
    \/ CompanyResponses
    \/ SideResponses
    \/ CompareResponses

Spec == Init /\ [][Next]_vars

\* the stock panel: selections, period changes and refreshes, with the
\* responses to the company list and stock data fetches
NextStock ==
    \/ StockEvents(MaxStockEvents)
    \/ StockResponses
    \/ CompanyResponses

SpecStock == Init /\ [][NextStock]_vars

\* the comparison panel
NextCompare ==
    \/ CompareEvents(MaxCompareEvents)
    \/ CompanyResponses
    \/ CompareResponses

SpecCompare == Init /\ [][NextCompare]_vars

\* the search box and the company list
NextFilter ==
    \/ FilterEvents(MaxFilterEvents)
    \/ events < MaxFilterEvents /\ refreshAllData
    \/ CompanyResponses
    \/ StockResponses

SpecFilter == Init /\ [][NextFilter]_vars

\* selecting: the user's clicks on companies and use of the compare controls
NextSelect ==
    \/ events < MaxSelectEvents /\ \E i \in 1..2 : companyClick(i)
    \/ events < MaxSelectEvents
          /\ \E value \in Symbols \cup {Empty} : compareStockSelect(value)
    \/ events < MaxSelectEvents /\ compareStocks
    \/ StockResponses
    \/ CompanyResponses
    \/ CompareResponses

SpecSelect == Init /\ [][NextSelect]_vars

\* every operation that fetches, with the events that start a comparison
NextFaults ==
    \/ events < MaxFaultEvents
          /\ \E value \in Symbols \cup {Empty} : compareStockSelect(value)
    \/ events < MaxFaultEvents /\ compareStocks
    \/ StockResponses
    \/ CompanyResponses
    \/ SideResponses
    \/ CompareResponses

SpecFaults == Init /\ [][NextFaults]_vars

(***************************************************************************)
(* Series derivation on its own: decoded bodies drawn from bounded sets,   *)
(* and the three derivations applied to them.                              *)
(***************************************************************************)
Dates == {[y |-> 2024, m |-> 1, d |-> 5], [y |-> 2024, m |-> 12, d |-> 31]}

\* StockPoints of a /data body
Points == [date         : Dates,
           close        : {100, 110},
           moving_avg_7 : {<<>>, <<0>>, <<105>>},
           daily_return : {<<>>, <<0>>, <<5>>, <<-3>>}]

PointSeries == UNION {[1..k -> Points] : k \in 0..MaxPoints}

\* close prices of the two bodies a comparison chart is drawn from
PriceValues == {0, 50, 55, 100, 110}
PriceSeries ==
    UNION {[1..k -> PriceValues] : k \in 0..MaxPrices}
      \cup {<<100, 110, 90>>, <<50, 55, 60>>}

\* a /data body with the given close prices
DataOf(prices) ==
    [i \in 1..Len(prices) |->
        [date         |-> [y |-> 2024, m |-> 1, d |-> i],
         close        |-> prices[i],
         moving_avg_7 |-> <<>>,
         daily_return |-> <<>>]]

\* ComparisonResults: performance in thousandths of a percent
PerfValues == {-10000, -1005, -5, 0, 4, 20000}
Comparisons == [stocks      : {TCS.symbol, INFY.symbol} \X {TCS.symbol, INFY.symbol},
                performance : [{TCS.symbol, INFY.symbol} -> PerfValues]]

Payloads ==
    {[kind |-> "points", stockData |-> points] : points \in PointSeries}
      \cup {[kind |-> "pair", data1 |-> DataOf(p[1]), data2 |-> DataOf(p[2])] :
               p \in PriceSeries \X PriceSeries}
      \cup {[kind |-> "comparison", comparison |-> c] : c \in Comparisons}

InitSeries ==
    /\ PageInit
    /\ payload \in Payloads
    /\ datasets = [kind |-> "none"]

\* updateCharts, lines 201 to 204
updateChartsSeries ==
    /\ payload.kind = "points"
    /\ datasets.kind = "none"
    /\ datasets' = ChartSeries(payload.stockData)
    /\ UNCHANGED <<view, selection, pending, notice, history, faults, payload>>

\* the .then of displayComparison, lines 407 to 415
displayComparisonSeries ==
    /\ payload.kind = "pair"
    /\ datasets.kind = "none"
    /\ datasets' = ComparisonSeries(payload.data1, payload.data2)
    /\ UNCHANGED <<view, selection, pending, notice, history, faults, payload>>

\* displayComparison, lines 384 and 385
displayComparisonStats ==
    /\ payload.kind = "comparison"
    /\ datasets.kind = "none"
    /\ datasets' = ComparisonStats(payload.comparison)
    /\ UNCHANGED <<view, selection, pending, notice, history, faults, payload>>

NextSeries ==
    \/ updateChartsSeries
    \/ displayComparisonSeries
    \/ displayComparisonStats

SpecSeries == InitSeries /\ [][NextSeries]_vars

(***************************************************************************)
(* Properties.                                                             *)
(***************************************************************************)
\* no loadStockData and no loadCompanies call is suspended
StockQuiescent == loads = EmptyBag /\ companyLoads = 0

\* the copies in bag B of the elements of the finite set S
CopiesOf(B, S) ==
    LET count[T \in SUBSET S] ==
            IF T = {} THEN 0
            ELSE LET x == CHOOSE y \in T : TRUE
                 IN  B[x] + count[T \ {x}]
    IN  count[S]

\* pending /data requests of the suspended loadStockData calls B
DataPending(B) == CopiesOf(B, {p \in BagToSet(B) : p.data = "pending"})
DataPendingFor(B, symbol, days) ==
    CopiesOf(B, {p \in BagToSet(B) :
                    p.data = "pending" /\ p.symbol = symbol /\ p.days = days})

\* pending /summary requests of the suspended loadStockData calls B
SummaryPending(B) == CopiesOf(B, {p \in BagToSet(B) : p.summary = "pending"})
SummaryPendingFor(B, symbol) ==
    CopiesOf(B, {p \in BagToSet(B) : p.summary = "pending" /\ p.symbol = symbol})

\* C1: whenever no stock or company fetch is outstanding and the stock panel
\* shows a stock, the panel, the metrics and the price and returns charts
\* are those of currentStock (a response for an earlier selection that
\* arrives late is not rendered).
C1_StaleResponseGuard ==
    StockQuiescent /\ selectedStockInfo.kind = "info" =>
        /\ selectedStockInfo.symbol = currentStock
        /\ metrics = currentStock
        /\ priceChart # NoChart /\ priceChart[1].symbol = currentStock
        /\ returnsChart # NoChart /\ returnsChart[1].symbol = currentStock

\* C2: for the price and the returns canvas: before any updateCharts call
\* has built a chart the canvas carries none, after one or more calls exactly
\* one live chart, the one the variable refers to, and no chart was ever
\* built while the previous one was still live.
C2_OneLiveChartPerSlot ==
    /\ overlapped \cap {"priceChart", "returnsChart"} = {}
    /\ IF priceChart = NoChart
       THEN canvas.priceChart = 0
       ELSE canvas.priceChart = 1 /\ priceChart[1].live
    /\ IF returnsChart = NoChart
       THEN canvas.returnsChart = 0
       ELSE canvas.returnsChart = 1 /\ returnsChart[1].live

\* C2 witness: both canvases carry one live chart after an earlier chart of
\* each was destroyed, so updateCharts has run at least twice
C2_Witness ==
    /\ {"priceChart", "returnsChart"} \subseteq released
    /\ canvas.priceChart = 1
    /\ canvas.returnsChart = 1

\* C4: when the series response of a loadStockData call decodes and its
\* summary fails (a response that is not a summary, or a rejected request),
\* the charts are drawn from the series and the stock panel does not show
\* the load-failure message.
C4_PartialFailureRendered ==
    [][\A p \in BagToSet(loads) :
          \/ \E body \in {"nojson", "errobj"} : loadStockDataResume(p, "ok", body)
          \/ p.data = "fulfilled" /\ fetchRejects(p, "summary")
          => /\ selectedStockInfo'.kind # "error"
             /\ priceChart' = <<SeriesChart(p)>>
             /\ returnsChart' = <<SeriesChart(p)>>]_vars

\* C5: a loadStockData call issues both fetches together and updates the
\* view (panel, charts, metrics or error message) only when neither of its
\* fetches is still pending.
C5_AllSettleJoin ==
    [][/\ BagCardinality(loads') > BagCardinality(loads) =>
            \E p \in BagToSet(loads') :
                /\ p.data = "pending" /\ p.summary = "pending"
                /\ loads' = loads (+) SetToBag({p})
       /\ \A p \in BagToSet(loads) :
          /\ \A which \in Fetches :
                fetchRejects(p, which) =>
                    \A other \in Fetches \ {which} : p[other] # "pending"
          /\ \A dataBody \in Bodies, summaryBody \in Bodies :
                loadStockDataResume(p, dataBody, summaryBody) =>
                    \A which \in Fetches : p[which] # "pending"]_vars

\* C7: after a refresh made with a stock selected, once every stock and
\* company fetch has settled and the user has not acted since, currentStock
\* and the compare selection are what they were when the refresh ran, and a
\* stock shown in the panel is currentStock.  (Stated for the case in which
\* the selected company is still in the rendered list.)
C7_RefreshKeepsSelection ==
    /\ atRefresh # <<>>
    /\ Truthy(atRefresh[1].currentStock)
    /\ \E i \in 1..Len(companiesList.items) :
          companiesList.items[i].symbol = atRefresh[1].currentStock
    /\ StockQuiescent
    =>
        /\ currentStock = atRefresh[1].currentStock
        /\ compareStock = atRefresh[1].compareStock
        /\ selectedStockInfo.kind = "info" => selectedStockInfo.symbol = currentStock

\* C8 as stated: a period change with a stock selected issues one /data
\* request for it with the new days, no /summary request and no other
\* request; with no stock selected it issues none.
C8_PeriodReloadsSeriesOnly ==
    [][\A days \in Periods :
          timePeriodChange(days) =>
            IF Truthy(currentStock)
            THEN /\ DataPendingFor(loads', currentStock, days)
                      = DataPendingFor(loads, currentStock, days) + 1
                 /\ DataPending(loads') = DataPending(loads) + 1
                 /\ SummaryPending(loads') = SummaryPending(loads)
                 /\ UNCHANGED <<companyLoads, gainerLoads, loserLoads,
                                statusLoads, compares, chartLoads>>
            ELSE UNCHANGED pending]_vars

\* C8 as amended: a period change with a stock selected issues one /data
\* request for it with the new days and one /summary request for it, and no
\* other request; with no stock selected it issues none.
C8_PeriodReloadsStock ==
    [][\A days \in Periods :
          timePeriodChange(days) =>
            IF Truthy(currentStock)
            THEN /\ DataPendingFor(loads', currentStock, days)
                      = DataPendingFor(loads, currentStock, days) + 1
                 /\ DataPending(loads') = DataPending(loads) + 1
                 /\ SummaryPendingFor(loads', currentStock)
                      = SummaryPendingFor(loads, currentStock) + 1
                 /\ SummaryPending(loads') = SummaryPending(loads) + 1
                 /\ UNCHANGED <<companyLoads, gainerLoads, loserLoads,
                                statusLoads, compares, chartLoads>>
            ELSE UNCHANGED pending]_vars

\* C8 witness: the charts show a series fetched for another period than the
\* selected one while the reload for the selected period is in flight
C8_Witness ==
    /\ Truthy(currentStock)
    /\ priceChart # NoChart
    /\ priceChart[1].symbol = currentStock
    /\ priceChart[1].days # timePeriod
    /\ BagIn(LoadOf(currentStock, timePeriod), loads)

\* C10: once currentStock holds a symbol it never holds null again, and
\* every symbol it holds is the symbol of a company of a received list.
C10_ActiveSymbolStaysSet ==
    [][/\ Truthy(currentStock) => Truthy(currentStock')
       /\ Truthy(currentStock') => currentStock' \in fetchedSymbols']_vars

\* C10 witness: the user has selected the second company of a list
C10_Witness ==
    /\ currentStock = SBIN.symbol
    /\ SBIN.symbol \in fetchedSymbols
    /\ events > 0

\* C3: the comparison canvas never carries more than one live chart.
C3_OneLiveComparisonChart == canvas.comparisonChart <= 1

\* C6: a compare action that fails, at the /compare request, at its decoding
\* or at the series fetches for the chart, raises the failure notice and
\* leaves the comparison panel, statistics and chart as they were when the
\* action started.
C6_FailedComparisonUntouched ==
    [][/\ \A c \in BagToSet(compares) :
            compareStocksCatch(c) =>
                notice' = FailedNotice /\ comparisonView' = c.before
       /\ \A cl \in BagToSet(chartLoads) :
            chartFetchRejects(cl) \/ displayComparisonThenThrows(cl) =>
                notice' = FailedNotice /\ comparisonView' = cl.before]_vars

\* the symbol without a trailing exchange suffix
StrippedSymbol(symbol) ==
    IF Len(symbol) >= Len(DotNS)
       /\ SubSeq(symbol, Len(symbol) - Len(DotNS) + 1, Len(symbol)) = DotNS
    THEN SubSeq(symbol, 1, Len(symbol) - Len(DotNS))
    ELSE symbol

\* text s contains text x, letter case ignored
ContainsIgnoringCase(s, x) ==
    \E i \in 0..(Len(s) - Len(x)) :
        \A k \in 1..Len(x) : LowerChar(s[i + k]) = LowerChar(x[k])

\* the company of a rendered element matches filter text x
ShouldShow(item, x) ==
    \/ ContainsIgnoringCase(item.name, x)
    \/ ContainsIgnoringCase(StrippedSymbol(item.symbol), x)
    \/ ContainsIgnoringCase(item.sector, x)

\* C9: after the search box's input listener has run on a non-empty
\* rendered list, the displayed elements are exactly those whose company
\* matches the text by name, stripped symbol or sector, case ignored; for the
\* empty text all are displayed; the list itself is unchanged.
C9_FilterShowsMatches ==
    [][\A x \in FilterTexts :
          searchInput(x) /\ Len(companiesList.items) > 0 =>
            /\ Len(companiesList'.items) = Len(companiesList.items)
            /\ \A i \in 1..Len(companiesList.items) :
                 /\ companiesList'.items[i].symbol = companiesList.items[i].symbol
                 /\ companiesList'.items[i].display
                      <=> ShouldShow(companiesList.items[i], x)
                 /\ x = Empty => companiesList'.items[i].display]_vars

\* C9 witness: the text "infy" is in the box and of the two rendered
\* companies TCS is hidden and Infosys is displayed
C9_Witness ==
    /\ searchCompany = <<"i", "n", "f", "y">>
    /\ Len(companiesList.items) = 2
    /\ companiesList.items[1].symbol = TCS.symbol
    /\ ~companiesList.items[1].display
    /\ companiesList.items[2].symbol = INFY.symbol
    /\ companiesList.items[2].display

\* C11: a click on a company sets currentStock to its symbol, starts one
\* loadStockData call for it with both fetches pending and no other request,
\* and leaves the compareStock selection alone; picking a compareStock
\* option sets the selection and starts no request; a /compare request is
\* started only by compareStocks.
C11_SelectionFrame ==
    [][/\ \A i \in 1..2 :
            companyClick(i) =>
                /\ currentStock' = companiesList.items[i].symbol
                /\ loads' = loads (+) SetToBag({[symbol  |-> companiesList.items[i].symbol,
                                                  days    |-> timePeriod,
                                                  data    |-> "pending",
                                                  summary |-> "pending"]})
                /\ compareStock' = compareStock
                /\ UNCHANGED <<companyLoads, gainerLoads, loserLoads, statusLoads,
                               compares, chartLoads>>
       /\ \A value \in Symbols \cup {Empty} :
            compareStockSelect(value) =>
                /\ compareStock' = value
                /\ UNCHANGED pending
       /\ BagCardinality(compares') > BagCardinality(compares) => compareStocks]_vars

\* C11 witness: with a compare symbol picked, the user has clicked the
\* second company and its load is in flight; no /compare request was made
C11_Witness ==
    /\ currentStock = SBIN.symbol
    /\ compareStock = INFY.symbol
    /\ BagIn(LoadOf(SBIN.symbol, timePeriod), loads)
    /\ lastCompared = <<>>
    /\ compares = EmptyBag

\* the catch block of op has run and nothing of op has reached the top level
Handles(op) == op \in failed' /\ op \notin uncaught'

\* C12: no step lets a failure reach the top level, and every failing
\* outcome of a request (rejected, body not JSON, body of another shape,
\* status not ok) ends the call that made it with its catch block run.
C12_FailuresHandled ==
    [][/\ uncaught' = {}
       /\ \A p \in BagToSet(loads) :
            /\ \A which \in Fetches :
                  fetchRejects(p, which) =>
                      Handles("loadStockData") /\ loads' = loads (-) SetToBag({p})
            /\ \A dataBody \in Bodies, summaryBody \in Bodies :
                  /\ <<dataBody, summaryBody>> # <<"ok", "ok">>
                  /\ loadStockDataResume(p, dataBody, summaryBody)
                  => Handles("loadStockData") /\ loads' = loads (-) SetToBag({p})
       /\ loadCompaniesCatch =>
            Handles("loadCompanies") /\ companyLoads' = companyLoads - 1
       /\ \A outcome \in ListOutcomes \ {"array"} :
            /\ loadTopGainersResume(outcome) =>
                  Handles("loadTopGainers") /\ gainerLoads' = gainerLoads - 1
            /\ loadTopLosersResume(outcome) =>
                  Handles("loadTopLosers") /\ loserLoads' = loserLoads - 1
       /\ checkAPIStatusResume("rejected") =>
            Handles("checkAPIStatus") /\ statusLoads' = statusLoads - 1
       /\ \A c \in BagToSet(compares) :
            compareStocksCatch(c) =>
                Handles("compareStocks") /\ compares' = compares (-) SetToBag({c})
       /\ \A cl \in BagToSet(chartLoads) :
            chartFetchRejects(cl) \/ displayComparisonThenThrows(cl) =>
                Handles("displayComparison")
                /\ chartLoads' = chartLoads (-) SetToBag({cl})]_vars

\* C12 witness: the liveness check, the stock load, the gainers, the losers
\* and the series fetches of a comparison have all failed and no call is
\* suspended any more
C12_Witness ==
    /\ Operations \ {"loadCompanies", "compareStocks"} \subseteq failed
    /\ loads = EmptyBag /\ compares = EmptyBag /\ chartLoads = EmptyBag
    /\ companyLoads = 0 /\ gainerLoads = 0 /\ loserLoads = 0 /\ statusLoads = 0

\* C13: a failed loadCompanies call leaves the error message in place of the
\* company list and does not write the stock panel; a failed loadStockData
\* call leaves the error message in place of the stock panel and does not
\* write the company list.
C13_InlineErrorPerRegion ==
    [][/\ loadCompaniesCatch =>
            /\ companiesList' = [error |-> TRUE, items |-> <<>>]
            /\ selectedStockInfo' = selectedStockInfo
       /\ \A p \in BagToSet(loads) :
            /\ \A which \in Fetches :
                  fetchRejects(p, which) =>
                      /\ selectedStockInfo' = [kind |-> "error", symbol |-> Null]
                      /\ companiesList' = companiesList
            /\ \A dataBody \in Bodies, summaryBody \in Bodies :
                  /\ <<dataBody, summaryBody>> # <<"ok", "ok">>
                  /\ loadStockDataResume(p, dataBody, summaryBody)
                  => /\ selectedStockInfo' = [kind |-> "error", symbol |-> Null]
                     /\ companiesList' = companiesList]_vars

\* C13 witness: after a refresh both loads have failed and both regions
\* show their error message
C13_Witness ==
    /\ companiesList.error
    /\ selectedStockInfo.kind = "error"
    /\ {"loadCompanies", "loadStockData"} \subseteq failed
    /\ StockQuiescent

\* C14: a liveness check that fails (request rejected or status not ok)
\* sets the status text to Offline and changes nothing else but its own
\* suspension; and in every state, whatever the status, each suspended
\* company, gainers, losers and stock load can be answered and complete.
C14_OfflineBlocksNothing ==
    /\ [][\A outcome \in {"notok", "rejected"} :
            checkAPIStatusResume(outcome) =>
                /\ apiStatus' = "Offline"
                /\ statusLoads' = statusLoads - 1
                /\ UNCHANGED <<priceChart, returnsChart, comparisonChart, canvas,
                               companiesList, selectedStockInfo, metrics,
                               comparisonSection, comparisonStats, topGainers,
                               topLosers, selection, loads, companyLoads,
                               gainerLoads, loserLoads, compares, chartLoads>>]_vars
    /\ [](/\ companyLoads > 0 /\ BagCardinality(loads) < MaxLoads =>
                \A companies \in CompanyLists : ENABLED loadCompaniesResume(companies)
          /\ gainerLoads > 0 => ENABLED loadTopGainersResume("array")
          /\ loserLoads > 0 => ENABLED loadTopLosersResume("array")
          /\ \A p \in BagToSet(loads) :
                /\ \A which \in Fetches :
                      p[which] = "pending" => ENABLED fetchFulfils(p, which)
                /\ p.data = "fulfilled" /\ p.summary = "fulfilled" =>
                      ENABLED loadStockDataResume(p, "ok", "ok"))

\* C14 witness: the status is Offline and the company list, the stock
\* panel, the gainers and the losers have all been rendered
C14_Witness ==
    /\ apiStatus = "Offline"
    /\ Len(companiesList.items) > 0
    /\ selectedStockInfo.kind = "info"
    /\ topGainers = "list"
    /\ topLosers = "list"

\* the fraction k / 1
Whole(k) == [n |-> k, d |-> 1]

\* series holds, for prices, the percent change of each price from the first
RebasedToOwnFirst(series, prices) ==
    /\ Len(series) = Len(prices)
    /\ Len(prices) > 0 /\ prices[1] # 0 =>
          /\ series[1] = Whole(0)
          /\ \A i \in 1..Len(prices) :
                /\ series[i].d > 0
                /\ series[i].n * prices[1] = (prices[i] - prices[1]) * 100 * series[i].d

\* C15: each of the two normalized series of a comparison chart holds, for
\* a series whose first price is not zero, (price[i] - price[0]) / price[0]
\* * 100 at every index, computed from that series' own first price, so 0
\* at index 0; [100,110,90] gives [0,10,-10] and [50,55,60] gives [0,10,20].
C15_Normalization ==
    datasets.kind = "pair" =>
        /\ RebasedToOwnFirst(datasets.normalized1, Closes(payload.data1))
        /\ RebasedToOwnFirst(datasets.normalized2, Closes(payload.data2))
        /\ Closes(payload.data1) = <<100, 110, 90>> =>
              datasets.normalized1 = <<Whole(0), Whole(10), Whole(-10)>>
        /\ Closes(payload.data2) = <<50, 55, 60>> =>
              datasets.normalized2 = <<Whole(0), Whole(10), Whole(20)>>

\* C15 witness: the two example series have been normalized together
C15_Witness ==
    /\ datasets.kind = "pair"
    /\ Closes(payload.data1) = <<100, 110, 90>>
    /\ Closes(payload.data2) = <<50, 55, 60>>
    /\ datasets.normalized2[3] = Whole(20)

\* the comparison with its two stocks swapped
Swapped(comparison) ==
    [comparison EXCEPT !.stocks = <<comparison.stocks[2], comparison.stocks[1]>>]

\* C16: perfDiff is the performance of the first stock minus that of the
\* second, and for the comparison with the two stocks swapped it is the
\* negated value; the displayed text has the same digits and, for a
\* difference other than zero, the opposite sign.
C16_DifferentialAntisymmetric ==
    datasets.kind = "stats" =>
        LET c == payload.comparison
            other == ComparisonStats(Swapped(c))
        IN  /\ datasets.perfDiff = c.performance[c.stocks[1]] - c.performance[c.stocks[2]]
            /\ other.perfDiff = 0 - datasets.perfDiff
            /\ other.text.hundredths = datasets.text.hundredths
            /\ datasets.perfDiff # 0 => other.text.negative # datasets.text.negative
            /\ datasets.perfDiff = 0 => ~other.text.negative /\ ~datasets.text.negative

\* C16 witness: the example of -10 % against 20 %, displayed as -30.00
C16_Witness ==
    /\ datasets.kind = "stats"
    /\ payload.comparison.stocks[1] # payload.comparison.stocks[2]
    /\ datasets.perfDiff = -30000
    /\ datasets.text = [negative |-> TRUE, hundredths |-> 3000]

\* C17: the labels, close prices, moving averages and returns derived from
\* a /data body have its length and hold at each index the label, the close
\* price and the moving average of that point, an absent moving average
\* staying absent, and 100 times its daily return, 0 for an absent one.
C17_SeriesAligned ==
    datasets.kind = "series" =>
        LET points == payload.stockData
        IN  /\ Len(datasets.dates) = Len(points)
            /\ Len(datasets.prices) = Len(points)
            /\ Len(datasets.movingAverages) = Len(points)
            /\ Len(datasets.dailyReturns) = Len(points)
            /\ \A i \in 1..Len(points) :
                  /\ datasets.dates[i] = <<points[i].date.m, points[i].date.d, points[i].date.y>>
                  /\ datasets.prices[i] = points[i].close
                  /\ datasets.movingAverages[i] = points[i].moving_avg_7
                  /\ points[i].moving_avg_7 = <<>> => datasets.movingAverages[i] # <<0>>
                  /\ datasets.dailyReturns[i] =
                        IF points[i].daily_return = <<>>
                        THEN 0 ELSE 100 * points[i].daily_return[1]

\* C17 witness: a body of two points, the first without moving average and
\* without daily return, the second with both
C17_Witness ==
    /\ datasets.kind = "series"
    /\ Len(payload.stockData) = 2
    /\ payload.stockData[1].moving_avg_7 = <<>>
    /\ payload.stockData[1].daily_return = <<>>
    /\ datasets.movingAverages = <<<<>>, <<105>>>>
    /\ datasets.dailyReturns = <<0, -300>>

\* C18: after two or more period changes for the selected company, once no
\* stock or company fetch is outstanding and no load has failed, the price
\* and the returns chart show the series of currentStock fetched with the
\* current timePeriod, whatever the order in which the reloads resolved.
C18_LatestPeriodWins ==
    /\ periodChanges >= 2
    /\ failed = {}
    /\ StockQuiescent
    /\ priceChart # NoChart
    /\ returnsChart # NoChart
    =>
        /\ priceChart[1].symbol = currentStock
        /\ priceChart[1].days = timePeriod
        /\ returnsChart[1].symbol = currentStock
        /\ returnsChart[1].days = timePeriod

\* C19: in every state the displayed elements of the rendered company list
\* are exactly those whose company matches the text in the search box, also
\* after a load or a refresh has rebuilt the list.
C19_FilterConsistent ==
    \A i \in 1..Len(companiesList.items) :
        companiesList.items[i].display
          <=> ShouldShow(companiesList.items[i], searchCompany)

\* C20: once a /compare request has been made and every compare and chart
\* fetch has settled, none having failed and no chart having been built on a
\* busy canvas, the displayed statistics and the live comparison chart are
\* both those of the pair of the latest /compare request.
C20_ComparisonCoherent ==
    /\ lastCompared # <<>>
    /\ failed = {}
    /\ "comparisonChart" \notin overlapped
    /\ compares = EmptyBag
    /\ chartLoads = EmptyBag
    =>
        /\ comparisonStats # <<>>
        /\ comparisonStats[1].stocks = lastCompared
        /\ comparisonChart # NoChart
        /\ comparisonChart[1].live
        /\ comparisonChart[1].stocks = lastCompared

====
